---- MODULE Spec2Model ----
(***************************************************************************)
(* Canvas view state and spatial layout of the tech wishlist dashboard:    *)
(* the pan/zoom camera (viewState), the positions of cards and widgets,    *)
(* entity drags reported by the DndContext, and the edge-triggered         *)
(* auto-pan that runs while an entity is dragged (src/src/App.jsx).        *)
(*                                                                         *)
(* React state is modelled the way React keeps it.  A setter called from a *)
(* handler queues an update; the component function and its effects see    *)
(* the new value at the next render.  For every piece of state there is    *)
(* the value the updater queue has produced so far (viewNext,              *)
(* isDraggingItem, isPanning, techs) and the value of the last render that *)
(* closures and effect dependencies hold (viewState, rendered).  Discrete  *)
(* input events (mousedown, mouseup, pointerup, click) are rendered before *)
(* the next event is dispatched; continuous events (wheel, mousemove,      *)
(* pointermove) and timer callbacks leave the render pending.              *)
(*                                                                         *)
(* Units: pointer coordinates and drag deltas are whole CSS pixels; the    *)
(* camera pan and the pan velocity are counted in 1/PX pixel because       *)
(* checkEdge halves a pixel distance; scale is counted in 1/MILLI; entity  *)
(* positions are exact fractions of a pixel.                               *)
(***************************************************************************)
EXTENDS Integers, Sequences, FiniteSets, TLC

\* ------------------------------------------------------------------ units
PX == 2
MILLI == 1000

\* ------------------------------------------------- constants of App.jsx
edgeThreshold == 100
maxSpeed == 25
MinScale == 100
MaxScale == 5000
ZoomStep == 100
DefaultScale == 1000
DefaultWidth == 900
cardW == 280
cardH == 72
gapX == 16
gapY == 16
startY == 400
\* TechCard.jsx: limits and fallback size of a card
CARD_MIN_W == 200
CARD_MIN_H == 60
CARD_MAX_W == 600
CARD_MAX_H == 400
CardDefaultW == 280
CardDefaultH == 72
\* TechFormWidget.jsx: limits of the form widget, height used for "auto"
FORM_MIN_W == 320
FORM_MIN_H == 200
FORM_MAX_W == 600
FORM_MAX_H == 600
FormDefaultW == 360
FormAutoH == 300

\* ----------------------------------------------------------------- bounds
MaxPan == 50
MaxDrags == 1
MaxResizes == 2
MaxFetches == 3

\* ------------------------------------------------------------- arithmetic
Abs(n) == IF n < 0 THEN -n ELSE n

Min(a, b) == IF a < b THEN a ELSE b

Max(a, b) == IF a > b THEN a ELSE b

RECURSIVE Gcd(_, _)
Gcd(a, b) == IF b = 0 THEN a ELSE Gcd(b, a % b)

\* the fraction n/d, d > 0, in lowest terms
Frac(n, d) == LET g == Gcd(Abs(n), d) IN [n |-> n \div g, d |-> d \div g]

Whole(k) == [n |-> k, d |-> 1]

FracAdd(a, b) == Frac(a.n * b.d + b.n * a.d, a.d * b.d)

FracMax0(a) == IF a.n < 0 THEN Whole(0) ELSE a

Pos(x, y) == [x |-> Whole(x), y |-> Whole(y)]

\* ------------------------------------------------------------ identifiers
\* an id is a JavaScript value: its type and its string form
NumId(s) == [s |-> s, t |-> "number"]

StrId(s) == [s |-> s, t |-> "string"]

FormId == StrId("tech-form-widget")

LogoId == StrId("brand-logo-widget")

NoDrag == [s |-> "", t |-> "none"]

CardIds == {NumId("1"), StrId("2")}

\* property key of an object: the string form of the value
Key(id) == id.s

\* the components that render a resize handle
Resizables == CardIds \cup {FormId}

\* useRef({ mouseX: 0, mouseY: 0, w: 0, h: 0 })
NoResizeStart == [mouseX |-> 0, mouseY |-> 0, w |-> 0, h |-> 0, auto |-> FALSE]

\* no mutation was sent to the item store
NoRequest == [id |-> NoDrag, op |-> "none", returned |-> "none"]

\* no list fetch was issued
NoFetches == [inflight |-> {}, issued |-> 0, newest |-> <<>>]


\* -------------------------------------------------------------- the state
VARIABLES
    viewState,          \* camera of the last render: [x, y, scale]
    viewNext,           \* camera after the queued setViewState updates
    positions,          \* card positions, keyed by Key(id)
    sizes,              \* card sizes, keyed by Key(id)
    formPos,            \* position of the form widget
    formSize,           \* size of the form widget
    logoPos,            \* position of the logo widget
    techs,              \* the item list of useTechs, a sequence of ids
    isDraggingItem,     \* React state of the auto-pan
    isPanning,          \* React state of the background pan
    rendered,           \* what the last render saw: [isDraggingItem, isPanning, techs]
    autoPanIntervalRef, \* TRUE when the ref holds an interval id, FALSE when null
    intervals,          \* number of live setInterval timers
    autoPanListeners,   \* window event types the auto-pan effect listens to
    currentPanVelocity, \* [dx, dy] in 1/PX pixel per tick
    lastPanRef,         \* last pointer position of the background pan
    panListeners,       \* window event types the background pan listens to
    isResizing,         \* ids of the components whose isResizing state is true
    resizeStart,        \* the resizeStart ref of each resizable component
    resizeListeners,    \* ids of the components whose resize effect listens
    dndActive,          \* the draggable the DndContext is dragging, or NoDrag
    storage,            \* localStorage: the blob under each of the six layout keys
    mounted,            \* TRUE while the App component is mounted
    error,              \* the error state of useTechs: a message, "" when null
    request,            \* the last mutation sent to the item store and what it returned
    fetches,            \* the list fetches of useTechs: those in flight, how many were
                        \* issued, and what the store answered to the newest
    viewport,           \* [vw, vh]: window.innerWidth, window.innerHeight
    pointer,            \* position of the last pointer event delivered
    nDrags,             \* number of drops committed so far
    nResizes,           \* number of resize gestures started so far
    lastEvent           \* the event handled by the last step

vars == <<viewState, viewNext, positions, sizes, formPos, formSize, logoPos, techs,
          isDraggingItem, isPanning, rendered, autoPanIntervalRef, intervals,
          autoPanListeners, currentPanVelocity, lastPanRef, panListeners,
          isResizing, resizeStart, resizeListeners, storage, mounted,
          error, request, fetches, dndActive, viewport, pointer, nDrags, nResizes, lastEvent>>

\* the application state as one value, so that a handler and the render that
\* follows it compose
Cur ==
    [viewState |-> viewState, viewNext |-> viewNext, positions |-> positions,
     sizes |-> sizes, formPos |-> formPos, formSize |-> formSize,
     logoPos |-> logoPos, techs |-> techs, isDraggingItem |-> isDraggingItem,
     isPanning |-> isPanning, rendered |-> rendered,
     autoPanIntervalRef |-> autoPanIntervalRef, intervals |-> intervals,
     autoPanListeners |-> autoPanListeners,
     currentPanVelocity |-> currentPanVelocity, lastPanRef |-> lastPanRef,
     panListeners |-> panListeners, isResizing |-> isResizing,
     resizeStart |-> resizeStart, resizeListeners |-> resizeListeners,
     storage |-> storage, mounted |-> mounted, error |-> error,
     request |-> request, fetches |-> fetches, viewport |-> viewport]

Install(st) ==
    /\ viewState' = st.viewState
    /\ viewNext' = st.viewNext
    /\ positions' = st.positions
    /\ sizes' = st.sizes
    /\ formPos' = st.formPos
    /\ formSize' = st.formSize
    /\ logoPos' = st.logoPos
    /\ techs' = st.techs
    /\ isDraggingItem' = st.isDraggingItem
    /\ isPanning' = st.isPanning
    /\ rendered' = st.rendered
    /\ autoPanIntervalRef' = st.autoPanIntervalRef
    /\ intervals' = st.intervals
    /\ autoPanListeners' = st.autoPanListeners
    /\ currentPanVelocity' = st.currentPanVelocity
    /\ lastPanRef' = st.lastPanRef
    /\ panListeners' = st.panListeners
    /\ isResizing' = st.isResizing
    /\ resizeStart' = st.resizeStart
    /\ resizeListeners' = st.resizeListeners
    /\ storage' = st.storage
    /\ mounted' = st.mounted
    /\ error' = st.error
    /\ request' = st.request
    /\ fetches' = st.fetches
    /\ viewport' = st.viewport

\* the state is st: for the start states
Holds(st) ==
    /\ viewState = st.viewState
    /\ viewNext = st.viewNext
    /\ positions = st.positions
    /\ sizes = st.sizes
    /\ formPos = st.formPos
    /\ formSize = st.formSize
    /\ logoPos = st.logoPos
    /\ techs = st.techs
    /\ isDraggingItem = st.isDraggingItem
    /\ isPanning = st.isPanning
    /\ rendered = st.rendered
    /\ autoPanIntervalRef = st.autoPanIntervalRef
    /\ intervals = st.intervals
    /\ autoPanListeners = st.autoPanListeners
    /\ currentPanVelocity = st.currentPanVelocity
    /\ lastPanRef = st.lastPanRef
    /\ panListeners = st.panListeners
    /\ isResizing = st.isResizing
    /\ resizeStart = st.resizeStart
    /\ resizeListeners = st.resizeListeners
    /\ storage = st.storage
    /\ mounted = st.mounted
    /\ error = st.error
    /\ request = st.request
    /\ fetches = st.fetches
    /\ viewport = st.viewport

ZeroVelocity == [dx |-> 0, dy |-> 0]

\* --------------------------------------------------------- pure functions
\* calculateGridPositions: the id at index i of list, when it has no position
\* yet, takes the next free grid index
RECURSIVE GridFrom(_, _, _, _, _)
GridFrom(list, i, pos, nextIndex, cols) ==
    IF i > Len(list) THEN pos
    ELSE IF Key(list[i]) \in DOMAIN pos
         THEN GridFrom(list, i + 1, pos, nextIndex, cols)
         ELSE GridFrom(list, i + 1,
                       [k \in DOMAIN pos \cup {Key(list[i])} |->
                           IF k = Key(list[i])
                           THEN Pos((nextIndex % cols) * (cardW + gapX),
                                    startY + (nextIndex \div cols) * (cardH + gapY))
                           ELSE pos[k]],
                       nextIndex + 1, cols)

\* variant: the grid index of a card is its index in the list
RECURSIVE GridByListIndex(_, _, _, _)
GridByListIndex(list, i, pos, cols) ==
    IF i > Len(list) THEN pos
    ELSE IF Key(list[i]) \in DOMAIN pos
         THEN GridByListIndex(list, i + 1, pos, cols)
         ELSE GridByListIndex(list, i + 1,
                              [k \in DOMAIN pos \cup {Key(list[i])} |->
                                  IF k = Key(list[i])
                                  THEN Pos(((i - 1) % cols) * (cardW + gapX),
                                           startY + ((i - 1) \div cols) * (cardH + gapY))
                                  ELSE pos[k]],
                              cols)

calculateGridPositionsByListIndex(list, existingPositions, containerWidth) ==
    GridByListIndex(list, 1, existingPositions,
                    Max(1, containerWidth \div (cardW + gapX)))

\* variant: the copy keeps only the positions of the cards of the list
calculateGridPositionsOnlyListed(list, existingPositions, containerWidth) ==
    LET listed == {k \in DOMAIN existingPositions :
                      \E i \in 1..Len(list) : Key(list[i]) = k}
    IN  GridFrom(list, 1, [k \in listed |-> existingPositions[k]], 0,
                 Max(1, containerWidth \div (cardW + gapX)))

\* variant: a stored position with x = 0 counts as missing
calculateGridPositionsFalsyX(list, existingPositions, containerWidth) ==
    LET kept == {k \in DOMAIN existingPositions : existingPositions[k].x # Whole(0)}
    IN  GridFrom(list, 1, [k \in kept |-> existingPositions[k]], 0,
                 Max(1, containerWidth \div (cardW + gapX)))

\* variant: starts from an empty map instead of a copy of the existing one
calculateGridPositionsFromScratch(list, existingPositions, containerWidth) ==
    GridFrom(list, 1, [k \in {} |-> Pos(0, 0)], 0,
             Max(1, containerWidth \div (cardW + gapX)))

calculateGridPositions(list, existingPositions, containerWidth) ==
    GridFrom(list, 1, existingPositions, 0,
             Max(1, containerWidth \div (cardW + gapX)))

\* containerRef.current?.offsetWidth || 900: the container spans the viewport
ContainerWidth(vp) == IF vp.vw = 0 THEN DefaultWidth ELSE vp.vw

\* variant whose speed is a whole number of pixels, rounded down
EdgeAxisWholePixels(c, extent) ==
    LET near == IF c < edgeThreshold
                THEN Min(maxSpeed, (edgeThreshold - c) \div 2) * PX
                ELSE 0
    IN  IF c > extent - edgeThreshold
        THEN -(Min(maxSpeed, (c - (extent - edgeThreshold)) \div 2) * PX)
        ELSE near

\* variant: the speed grows with the distance and has no cap
EdgeAxisUncapped(c, extent) ==
    LET near == IF c < edgeThreshold THEN ((edgeThreshold - c) * PX) \div 2 ELSE 0
    IN  IF c > extent - edgeThreshold
        THEN -(((c - (extent - edgeThreshold)) * PX) \div 2)
        ELSE near

\* one axis of checkEdge, in 1/PX pixel: the far edge is tested last and wins
EdgeAxis(c, extent) ==
    LET near == IF c < edgeThreshold
                THEN Min(maxSpeed * PX, ((edgeThreshold - c) * PX) \div 2)
                ELSE 0
    IN  IF c > extent - edgeThreshold
        THEN -Min(maxSpeed * PX, ((c - (extent - edgeThreshold)) * PX) \div 2)
        ELSE near

checkEdge(x, y, vp) == [dx |-> EdgeAxis(x, vp.vw), dy |-> EdgeAxis(y, vp.vh)]

ClampScale(s) == Min(Max(MinScale, s), MaxScale)

\* variant that multiplies the screen delta by the scale
toCanvasDeltaMultiplied(delta, scale) ==
    [x |-> Frac(delta.x * scale, MILLI), y |-> Frac(delta.y * scale, MILLI)]

\* delta / scale, delta in whole pixels and scale in 1/MILLI
toCanvasDelta(delta, scale) ==
    [x |-> Frac(delta.x * MILLI, scale), y |-> Frac(delta.y * MILLI, scale)]

\* variant: the moved point is clamped at zero
MovedAtLeastZero(p, adj) ==
    [x |-> FracMax0(FracAdd(p.x, adj.x)), y |-> FracMax0(FracAdd(p.y, adj.y))]

Moved(p, adj) == [x |-> FracAdd(p.x, adj.x), y |-> FracAdd(p.y, adj.y)]

\* ------------------------------------------------------ handlers of App
\* event of the DndContext: the active draggable and the cumulative delta
DragEvent(id, delta) == [active |-> id, hasDelta |-> TRUE, delta |-> delta]

DragEventNoDelta(id) == [active |-> id, hasDelta |-> FALSE, delta |-> [x |-> 0, y |-> 0]]

\* variant without the branch of the logo widget
handleDragEndNoLogoBranch(st, event) ==
    IF ~event.hasDelta THEN st
    ELSE LET adjustedDelta == toCanvasDelta(event.delta, st.viewState.scale)
             key == Key(event.active)
             current == IF key \in DOMAIN st.positions
                        THEN st.positions[key] ELSE Pos(0, 0)
         IN  IF event.active = FormId
             THEN [st EXCEPT !.formPos = Moved(st.formPos, adjustedDelta)]
             ELSE [st EXCEPT !.positions =
                      [k \in DOMAIN st.positions \cup {key} |->
                          IF k = key THEN Moved(current, adjustedDelta)
                          ELSE st.positions[k]]]

\* variant: the pan of the camera is taken off the screen delta
handleDragEndMinusPan(st, event) ==
    IF ~event.hasDelta THEN st
    ELSE LET adjustedDelta ==
                 [x |-> Frac((event.delta.x * PX - st.viewNext.x) * MILLI,
                             st.viewState.scale * PX),
                  y |-> Frac((event.delta.y * PX - st.viewNext.y) * MILLI,
                             st.viewState.scale * PX)]
             key == Key(event.active)
             current == IF key \in DOMAIN st.positions
                        THEN st.positions[key] ELSE Pos(0, 0)
         IN  IF event.active = FormId
             THEN [st EXCEPT !.formPos = Moved(st.formPos, adjustedDelta)]
             ELSE IF event.active = LogoId
             THEN [st EXCEPT !.logoPos = Moved(st.logoPos, adjustedDelta)]
             ELSE [st EXCEPT !.positions =
                      [k \in DOMAIN st.positions \cup {key} |->
                          IF k = key THEN Moved(current, adjustedDelta)
                          ELSE st.positions[k]]]

\* variant: an event without delta is handled as one with delta (0, 0)
handleDragEndZeroForNoDelta(st, event) ==
    LET adjustedDelta == toCanvasDelta(event.delta, st.viewState.scale)
        key == Key(event.active)
        current == IF key \in DOMAIN st.positions
                   THEN st.positions[key] ELSE Pos(0, 0)
    IN  IF event.active = FormId
        THEN [st EXCEPT !.formPos = Moved(st.formPos, adjustedDelta)]
        ELSE IF event.active = LogoId
        THEN [st EXCEPT !.logoPos = Moved(st.logoPos, adjustedDelta)]
        ELSE [st EXCEPT !.positions =
                 [k \in DOMAIN st.positions \cup {key} |->
                     IF k = key THEN Moved(current, adjustedDelta)
                     ELSE st.positions[k]]]

handleDragEnd(st, event) ==
    IF ~event.hasDelta THEN st
    ELSE LET adjustedDelta == toCanvasDelta(event.delta, st.viewState.scale)
             key == Key(event.active)
             current == IF key \in DOMAIN st.positions
                        THEN st.positions[key] ELSE Pos(0, 0)
         IN  IF event.active = FormId
             THEN [st EXCEPT !.formPos = Moved(st.formPos, adjustedDelta)]
             ELSE IF event.active = LogoId
             THEN [st EXCEPT !.logoPos = Moved(st.logoPos, adjustedDelta)]
             ELSE [st EXCEPT !.positions =
                      [k \in DOMAIN st.positions \cup {key} |->
                          IF k = key THEN Moved(current, adjustedDelta)
                          ELSE st.positions[k]]]

\* clearInterval(autoPanIntervalRef.current); autoPanIntervalRef.current = null
ClearAutoPanInterval(st) ==
    IF st.autoPanIntervalRef
    THEN [st EXCEPT !.intervals = st.intervals - 1, !.autoPanIntervalRef = FALSE]
    ELSE st

handleGlobalDragStart(st) == [st EXCEPT !.isDraggingItem = TRUE]

handleGlobalDragEnd(st, event) ==
    LET saved == handleDragEnd([st EXCEPT !.isDraggingItem = FALSE], event)
    IN  [ClearAutoPanInterval(saved) EXCEPT !.currentPanVelocity = ZeroVelocity]

\* variant without the upper limit
handleZoomInUnlimited(st) ==
    [st EXCEPT !.viewNext.scale = st.viewNext.scale + ZoomStep]

handleZoomIn(st) ==
    [st EXCEPT !.viewNext.scale = Min(st.viewNext.scale + ZoomStep, MaxScale)]

\* variant without the lower limit
handleZoomOutNoFloor(st) ==
    [st EXCEPT !.viewNext.scale = st.viewNext.scale - ZoomStep]

\* variant that takes two steps down
handleZoomOutDouble(st) ==
    [st EXCEPT !.viewNext.scale = Max(st.viewNext.scale - 2 * ZoomStep, MinScale)]

handleZoomOut(st) ==
    [st EXCEPT !.viewNext.scale = Max(st.viewNext.scale - ZoomStep, MinScale)]

\* variant that resets the scale only
handleResetKeepPan(st) == [st EXCEPT !.viewNext.scale = DefaultScale]

handleReset(st) == [st EXCEPT !.viewNext = [x |-> 0, y |-> 0, scale |-> DefaultScale]]

\* the zoom branch reads the scale of the last render, the pan branch the
\* queued state
handleWheel(st, ctrlKey, deltaX, deltaY) ==
    IF ctrlKey
    THEN [st EXCEPT !.viewNext.scale = ClampScale(st.viewState.scale - deltaY)]
    ELSE [st EXCEPT !.viewNext.x = st.viewNext.x - deltaX * PX,
                    !.viewNext.y = st.viewNext.y - deltaY * PX]

\* variant: the velocity is subtracted
AutoPanTickNegated(st) ==
    [st EXCEPT !.viewNext.x = st.viewNext.x - st.currentPanVelocity.dx,
               !.viewNext.y = st.viewNext.y - st.currentPanVelocity.dy]

\* the tick of the auto-pan interval
AutoPanTick(st) ==
    IF st.currentPanVelocity.dx # 0 \/ st.currentPanVelocity.dy # 0
    THEN [st EXCEPT !.viewNext.x = st.viewNext.x + st.currentPanVelocity.dx,
                    !.viewNext.y = st.viewNext.y + st.currentPanVelocity.dy]
    ELSE st

\* onMouseMove / onTouchMove of the auto-pan effect
onEdgeMove(st, p) == [st EXCEPT !.currentPanVelocity = checkEdge(p.x, p.y, st.viewport)]

\* the tag names and class names of the element under the pointer and of its
\* ancestors up to the app container, for every kind of element of the page
Ancestry(target) ==
    CASE target = "button"       -> {"button"}
      [] target = "input"        -> {"input", ".glass-card"}
      [] target = "link"         -> {"a", ".tech-card"}
      [] target = "card"         -> {".tech-card"}
      [] target = "cardButton"   -> {"button", ".tech-card"}
      [] target = "cardEdit"     -> {".tech-card-edit"}
      [] target = "cardEditInput" -> {"input", ".tech-card-input", ".tech-card-edit"}
      [] target = "cardDelete"   -> {"p", ".tech-card-delete"}
      [] target = "cardDeleteButton" -> {"button", ".tech-card-delete"}
      [] target = "formWidget"   -> {".glass-card"}
      [] target = "resizeHandle" -> {".resize-handle", ".tech-card"}
      [] target = "logo"         -> {".select-none"}
      [] OTHER                   -> {}

\* the selector list of handleMouseDown
InteractiveSelector ==
    {"button", "input", "a", ".tech-card", ".glass-card", ".resize-handle"}

\* e.target.closest("button, input, a, .tech-card, .glass-card, .resize-handle")
isInteractive(target) == Ancestry(target) \cap InteractiveSelector # {}

\* the element that carries the drag listeners of an entity: the grip button
\* of a card, the header of the form widget, the root of the logo widget
DragHandle(id) ==
    IF id = FormId THEN "formWidget" ELSE IF id = LogoId THEN "logo" ELSE "cardButton"

handleMouseDown(st, target, button, p) ==
    IF ~isInteractive(target) /\ (button = 0 \/ button = 1)
    THEN [st EXCEPT !.isPanning = TRUE, !.lastPanRef = p]
    ELSE st

\* variant: the pointer of the move is not recorded
handleMouseMoveNoRecord(st, p) ==
    IF ~st.rendered.isPanning THEN st
    ELSE [st EXCEPT !.viewNext.x = st.viewNext.x + (p.x - st.lastPanRef.x) * PX,
                    !.viewNext.y = st.viewNext.y + (p.y - st.lastPanRef.y) * PX]

handleMouseMove(st, p) ==
    IF ~st.rendered.isPanning THEN st
    ELSE [st EXCEPT !.lastPanRef = p,
                    !.viewNext.x = st.viewNext.x + (p.x - st.lastPanRef.x) * PX,
                    !.viewNext.y = st.viewNext.y + (p.y - st.lastPanRef.y) * PX]

\* variant: the release leaves the pan on
handleMouseUpKeepsPanning(st) == [st EXCEPT !.isPanning = st.isPanning]

handleMouseUp(st) == [st EXCEPT !.isPanning = FALSE]

\* ------------------------------------- resize of a card or of the form
\* size?.w ?? 280, size?.h ?? 72 of TechCard
CardSize(st, id) ==
    IF Key(id) \in DOMAIN st.sizes THEN st.sizes[Key(id)]
    ELSE [w |-> CardDefaultW, h |-> CardDefaultH]

\* handleResizeStart of TechCard (a card id) and of TechFormWidget
handleResizeStart(st, id, p) ==
    LET origin == IF id = FormId
                  THEN [mouseX |-> p.x, mouseY |-> p.y, w |-> st.formSize.w,
                        h |-> st.formSize.h, auto |-> st.formSize.auto]
                  ELSE [mouseX |-> p.x, mouseY |-> p.y, w |-> CardSize(st, id).w,
                        h |-> CardSize(st, id).h, auto |-> FALSE]
    IN  [st EXCEPT !.isResizing = st.isResizing \cup {id},
                   !.resizeStart[id] = origin]

handleResizeCard(st, id, newSize) ==
    [st EXCEPT !.sizes = [k \in DOMAIN st.sizes \cup {Key(id)} |->
                             IF k = Key(id) THEN newSize ELSE st.sizes[k]]]

handleResizeForm(st, newSize) == [st EXCEPT !.formSize = newSize]

\* variant of the card's move handler without the upper limit of the width
CardResizeMoveNoMaxW(st, id, p) ==
    LET start == st.resizeStart[id]
        newW == Max(CARD_MIN_W, start.w + (p.x - start.mouseX))
        newH == Min(CARD_MAX_H, Max(CARD_MIN_H, start.h + (p.y - start.mouseY)))
    IN  handleResizeCard(st, id, [w |-> newW, h |-> newH])

\* variant of the card's move handler that divides the delta by the scale
CardResizeMoveScaled(st, id, p) ==
    LET start == st.resizeStart[id]
        dx == ((p.x - start.mouseX) * MILLI) \div st.viewState.scale
        dy == ((p.y - start.mouseY) * MILLI) \div st.viewState.scale
        newW == Min(CARD_MAX_W, Max(CARD_MIN_W, start.w + dx))
        newH == Min(CARD_MAX_H, Max(CARD_MIN_H, start.h + dy))
    IN  handleResizeCard(st, id, [w |-> newW, h |-> newH])

\* handleMouseMove of the resize effect of TechCard
CardResizeMove(st, id, p) ==
    LET start == st.resizeStart[id]
        dx == p.x - start.mouseX
        dy == p.y - start.mouseY
        newW == Min(CARD_MAX_W, Max(CARD_MIN_W, start.w + dx))
        newH == Min(CARD_MAX_H, Max(CARD_MIN_H, start.h + dy))
    IN  handleResizeCard(st, id, [w |-> newW, h |-> newH])

\* variant of the form's move handler without the lower limit of the width
FormResizeMoveNoMinW(st, p) ==
    LET start == st.resizeStart[FormId]
        newW == Min(FORM_MAX_W, start.w + (p.x - start.mouseX))
        currentH == IF start.auto THEN FormAutoH ELSE start.h
        newH == Min(FORM_MAX_H, Max(FORM_MIN_H, currentH + (p.y - start.mouseY)))
    IN  handleResizeForm(st, [w |-> newW, auto |-> FALSE, h |-> newH])

\* variant of the form's move handler that takes an "auto" height as 0
FormResizeMoveAutoZero(st, p) ==
    LET start == st.resizeStart[FormId]
        newW == Min(FORM_MAX_W, Max(FORM_MIN_W, start.w + (p.x - start.mouseX)))
        newH == Min(FORM_MAX_H, Max(FORM_MIN_H, start.h + (p.y - start.mouseY)))
    IN  handleResizeForm(st, [w |-> newW, auto |-> FALSE, h |-> newH])

\* handleMouseMove of the resize effect of TechFormWidget
FormResizeMove(st, p) ==
    LET start == st.resizeStart[FormId]
        dx == p.x - start.mouseX
        dy == p.y - start.mouseY
        newW == Min(FORM_MAX_W, Max(FORM_MIN_W, start.w + dx))
        currentH == IF start.auto THEN FormAutoH ELSE start.h
        newH == Min(FORM_MAX_H, Max(FORM_MIN_H, currentH + dy))
    IN  handleResizeForm(st, [w |-> newW, auto |-> FALSE, h |-> newH])

\* a window mousemove reaches the move handler of every listening component
RECURSIVE ResizeMoveAll(_, _, _)
ResizeMoveAll(st, ids, p) ==
    IF ids = {} THEN st
    ELSE LET id == CHOOSE i \in ids : TRUE
             next == IF id = FormId THEN FormResizeMove(st, p)
                     ELSE CardResizeMove(st, id, p)
         IN  ResizeMoveAll(next, ids \ {id}, p)

\* handleMouseUp of the resize effects: setIsResizing(false) in every
\* listening component
ResizeMouseUp(st) == [st EXCEPT !.isResizing = st.isResizing \ st.resizeListeners]

\* ------------------------------------------------------- effects of App
\* a stored blob: has = FALSE when the key is absent, parses = FALSE when the
\* stored text is not JSON
NoBlob(val) == [has |-> FALSE, val |-> val, parses |-> TRUE]

Blob(val) == [has |-> TRUE, val |-> val, parses |-> TRUE]

Malformed(val) == [has |-> TRUE, val |-> val, parses |-> FALSE]

\* variant: the cleanup forgets the touchmove listener
AutoPanCleanupKeepsTouch(st) ==
    ClearAutoPanInterval([st EXCEPT !.autoPanListeners = st.autoPanListeners \ {"mousemove"}])

\* cleanup returned by the auto-pan effect when it ran with isDraggingItem
AutoPanCleanup(st) == ClearAutoPanInterval([st EXCEPT !.autoPanListeners = {}])

\* body of the auto-pan effect
AutoPanSetup(st) ==
    IF ~st.isDraggingItem
    THEN [ClearAutoPanInterval(st) EXCEPT !.currentPanVelocity = ZeroVelocity]
    ELSE [st EXCEPT !.intervals = st.intervals + 1,
                    !.autoPanIntervalRef = TRUE,
                    !.autoPanListeners = {"mousemove", "touchmove"}]

\* useEffect(..., [isDraggingItem]): runs when the dependency changed
AutoPanEffect(st) ==
    IF st.isDraggingItem = st.rendered.isDraggingItem THEN st
    ELSE AutoPanSetup(IF st.rendered.isDraggingItem THEN AutoPanCleanup(st) ELSE st)

\* useEffect(..., [isPanning, handleMouseMove, handleMouseUp])
PanEffect(st) ==
    [st EXCEPT !.panListeners = IF st.isPanning THEN {"mouseup", "mousemove"} ELSE {}]

\* useEffect(..., [techs]): places the cards that have no position yet
GridEffect(st) ==
    IF st.techs = st.rendered.techs \/ Len(st.techs) = 0 THEN st
    ELSE [st EXCEPT !.positions =
             calculateGridPositions(st.techs, st.positions, ContainerWidth(st.viewport))]

\* resize useEffect of TechCard and TechFormWidget: a component listens on
\* the window exactly while its isResizing is true
ResizeEffect(st) == [st EXCEPT !.resizeListeners = st.isResizing]

\* variant: the form position is written under the key of the logo position
PersistEffectFormAsLogo(st) ==
    [st EXCEPT !.storage = [positions |-> Blob(st.positions),
                            sizes |-> Blob(st.sizes),
                            formPos |-> Blob(st.formPos),
                            formSize |-> Blob(st.formSize),
                            logoPos |-> Blob(st.formPos),
                            view |-> Blob(st.viewState)]]

\* the six persistence effects: localStorage.setItem(key, JSON.stringify(value))
\* for every value that changed since it was written
PersistEffect(st) ==
    [st EXCEPT !.storage = [positions |-> Blob(st.positions),
                            sizes |-> Blob(st.sizes),
                            formPos |-> Blob(st.formPos),
                            formSize |-> Blob(st.formSize),
                            logoPos |-> Blob(st.logoPos),
                            view |-> Blob(st.viewState)]]

\* a render and its effects: the queued updates become the rendered state
Commit(st) ==
    LET done == ResizeEffect(PanEffect(AutoPanEffect(GridEffect(st))))
    IN  PersistEffect([done EXCEPT !.viewState = done.viewNext,
                                   !.rendered = [isDraggingItem |-> done.isDraggingItem,
                                                 isPanning |-> done.isPanning,
                                                 techs |-> done.techs]])

\* a render is pending: a state or a persisted value is not the rendered one
Dirty(st) ==
    \/ st.viewNext # st.viewState
    \/ st.isDraggingItem # st.rendered.isDraggingItem
    \/ st.techs # st.rendered.techs
    \/ st.isPanning # st.rendered.isPanning
    \/ st.storage # PersistEffect(st).storage

\* ------------------------------------------------------ persisted layout
\* variant: a stored point is loaded as it is
ClampPosAsStored(p) == [x |-> p.x, y |-> p.y]

ClampPos(p) == [x |-> FracMax0(p.x), y |-> FracMax0(p.y)]

LoadPositions(blob) ==
    IF blob.has THEN [k \in DOMAIN blob.val |-> ClampPos(blob.val[k])]
    ELSE [k \in {} |-> Pos(0, 0)]

LoadFormPos(blob) == IF blob.has THEN ClampPos(blob.val) ELSE Pos(20, 140)

LoadLogoPos(blob) == IF blob.has THEN ClampPos(blob.val) ELSE Pos(400, 20)

LoadSizes(blob) == IF blob.has THEN blob.val ELSE [k \in {} |-> [w |-> 0, h |-> 0]]

LoadFormSize(blob) == IF blob.has THEN blob.val ELSE [w |-> 360, auto |-> TRUE, h |-> 0]

LoadView(blob) ==
    IF blob.has THEN blob.val ELSE [x |-> 0, y |-> 0, scale |-> DefaultScale]

\* JSON.parse of a stored text that is not JSON throws a SyntaxError
Throws(blob) == blob.has /\ ~blob.parses

\* one of the useState initializers of App throws
LoadThrows(stor) ==
    \/ Throws(stor.positions) \/ Throws(stor.sizes) \/ Throws(stor.formPos)
    \/ Throws(stor.formSize) \/ Throws(stor.logoPos) \/ Throws(stor.view)

\* the state of an App that is not mounted: no React state, whatever the
\* window still holds
Unmounted(stor, vp) ==
    [viewState |-> LoadView(NoBlob(0)), viewNext |-> LoadView(NoBlob(0)),
     positions |-> LoadPositions(NoBlob(0)), sizes |-> LoadSizes(NoBlob(0)),
     formPos |-> LoadFormPos(NoBlob(0)), formSize |-> LoadFormSize(NoBlob(0)),
     logoPos |-> LoadLogoPos(NoBlob(0)), techs |-> <<>>,
     isDraggingItem |-> FALSE, isPanning |-> FALSE,
     rendered |-> [isDraggingItem |-> FALSE, isPanning |-> FALSE, techs |-> <<>>],
     autoPanIntervalRef |-> FALSE, intervals |-> 0, autoPanListeners |-> {},
     currentPanVelocity |-> [dx |-> 0, dy |-> 0], lastPanRef |-> [x |-> 0, y |-> 0],
     panListeners |-> {}, isResizing |-> {},
     resizeStart |-> [id \in Resizables |-> NoResizeStart], resizeListeners |-> {},
     storage |-> stor, mounted |-> FALSE, error |-> "", request |-> NoRequest,
     fetches |-> NoFetches, viewport |-> vp]

\* the useState initializers of App: every state from its blob
Initializers(stor, vp) ==
    [Unmounted(stor, vp) EXCEPT
         !.viewState = LoadView(stor.view),
         !.viewNext = LoadView(stor.view),
         !.positions = LoadPositions(stor.positions),
         !.sizes = LoadSizes(stor.sizes),
         !.formPos = LoadFormPos(stor.formPos),
         !.formSize = LoadFormSize(stor.formSize),
         !.logoPos = LoadLogoPos(stor.logoPos),
         !.mounted = TRUE]

\* cleanup of the background-pan effect
PanCleanup(st) == [st EXCEPT !.panListeners = {}]

\* cleanup of the resize effects of TechCard and TechFormWidget
ResizeCleanup(st) == [st EXCEPT !.resizeListeners = {}]

\* variant: the cleanup of the auto-pan effect leaves its interval running
UnmountCleanupKeepsInterval(st) ==
    LET autoPan == IF st.rendered.isDraggingItem
                   THEN [st EXCEPT !.autoPanListeners = {}] ELSE st
    IN  ResizeCleanup(PanCleanup(autoPan))

\* React runs the cleanup of every effect when the components unmount
UnmountCleanup(st) ==
    LET autoPan == IF st.rendered.isDraggingItem THEN AutoPanCleanup(st) ELSE st
    IN  ResizeCleanup(PanCleanup(autoPan))

\* ------------------------------------------------------ the item store
\* variant: a remove takes the item and its position away before the store
\* answers
callTechOptimistic(st, op, id) ==
    LET Other(t) == Key(t) # Key(id)
    IN  [st EXCEPT !.error = "",
                   !.request = [id |-> id, op |-> op, returned |-> "pending"],
                   !.techs = IF op = "delete" THEN SelectSeq(@, Other) ELSE @,
                   !.positions = IF op = "delete"
                                 THEN [k \in DOMAIN @ \ {Key(id)} |-> @[k]] ELSE @]

\* addTech, updateTech and deleteTech with a store: setError(null), then the
\* mutation is sent and awaited
callTech(st, op, id) ==
    [st EXCEPT !.error = "",
               !.request = [id |-> id, op |-> op, returned |-> "pending"]]

\* the store answered with an error: setError(message), return false
storeRejected(st) ==
    [st EXCEPT !.error = CASE st.request.op = "insert" ->
                                  "Erro ao adicionar tecnologia. Tente novamente."
                           [] st.request.op = "update" ->
                                  "Erro ao atualizar tecnologia. Tente novamente."
                           [] st.request.op = "delete" ->
                                  "Erro ao remover tecnologia. Tente novamente.",
               !.request.returned = "false"]

\* the store accepted and fetchTechs delivered data: setTechs(data),
\* setError(null), return true
storeAccepted(st, data) ==
    [st EXCEPT !.techs = data, !.error = "", !.request.returned = "true"]

\* fetchTechs is called after an accepted mutation: the request goes out and
\* the store answers it with data
fetchIssued(st, data) ==
    [st EXCEPT !.fetches = [inflight |-> @.inflight \cup {[n |-> @.issued + 1, data |-> data]},
                            issued |-> @.issued + 1,
                            newest |-> data]]

\* the response f of a fetch arrives: setTechs(data), setError(null)
fetchCompleted(st, f) ==
    [st EXCEPT !.techs = f.data, !.error = "", !.fetches.inflight = @ \ {f}]

\* ---------------------------------------------------------------- actions
\* the record of an event; a drop also records the scale on screen when it
\* was dispatched
Ev(type) == [type |-> type, active |-> NoDrag, hasDelta |-> FALSE,
             delta |-> [x |-> 0, y |-> 0], scale |-> 0,
             target |-> "none", button |-> 0, zoomedFrom |-> 0]

EvDrop(event, scale) == [type |-> "dragEnd", active |-> event.active,
                         hasDelta |-> event.hasDelta, delta |-> event.delta,
                         scale |-> scale, target |-> "none", button |-> 0,
                         zoomedFrom |-> 0]

Pt(x, y) == [x |-> x, y |-> y]

InPanBound(st) == Abs(st.viewNext.x) <= MaxPan * PX /\ Abs(st.viewNext.y) <= MaxPan * PX

\* an entity is on the canvas: the two widgets always, a card once rendered
Draggable(id) ==
    \/ id \in {FormId, LogoId}
    \/ \E i \in 1..Len(rendered.techs) : rendered.techs[i] = id

\* React renders the queued updates and runs the effects
Render ==
    /\ mounted
    /\ Dirty(Cur)
    /\ Install(Commit(Cur))
    /\ lastEvent' = Ev("render")
    /\ UNCHANGED <<dndActive, pointer, nDrags, nResizes>>

\* the page is opened with the stored blobs: the initializers run, then the
\* first render and its effects; an initializer that throws leaves no App
Mount ==
    /\ ~mounted
    /\ IF LoadThrows(storage)
       THEN Install(Cur) /\ lastEvent' = Ev("loadError")
       ELSE Install(Commit(Initializers(storage, viewport))) /\ lastEvent' = Ev("mount")
    /\ UNCHANGED <<dndActive, pointer, nDrags, nResizes>>

\* the App is torn down: the cleanups run, the React state and the active
\* drag of the DndContext are gone; the event records the gesture that was
\* in progress
Unmount ==
    /\ mounted
    /\ LET cleaned == UnmountCleanup(Cur)
       IN  Install([Unmounted(storage, viewport) EXCEPT
                        !.intervals = cleaned.intervals,
                        !.autoPanListeners = cleaned.autoPanListeners,
                        !.panListeners = cleaned.panListeners,
                        !.resizeListeners = cleaned.resizeListeners])
    /\ dndActive' = NoDrag
    /\ lastEvent' = [Ev("unmount") EXCEPT
                         !.active = dndActive,
                         !.target = IF intervals > 0 THEN "autoPan"
                                    ELSE IF isPanning THEN "pan"
                                    ELSE IF resizeListeners # {} THEN "resize"
                                    ELSE "none"]
    /\ UNCHANGED <<pointer, nDrags, nResizes>>

\* useTechs: setTechs(data) when a fetch completes
SetTechs(data) ==
    /\ mounted
    /\ techs # data
    /\ Install([Cur EXCEPT !.techs = data])
    /\ lastEvent' = Ev("setTechs")
    /\ UNCHANGED <<dndActive, pointer, nDrags, nResizes>>

\* the form is submitted, or an edit or a remove is confirmed on a card: the
\* hook sends the mutation
TechCall(op, id) ==
    /\ mounted
    /\ request.returned # "pending"
    /\ IF op = "insert" THEN id = NoDrag ELSE id \in CardIds /\ Draggable(id)
    /\ Install(Commit(callTech(Cur, op, id)))
    /\ lastEvent' = [Ev("techCall") EXCEPT !.active = id]
    /\ UNCHANGED <<dndActive, pointer, nDrags, nResizes>>

\* the store rejects the mutation that is awaited
StoreRejects ==
    /\ mounted
    /\ request.returned = "pending"
    /\ Install(storeRejected(Cur))
    /\ lastEvent' = [Ev("storeRejected") EXCEPT !.active = request.id]
    /\ UNCHANGED <<dndActive, pointer, nDrags, nResizes>>

\* the store accepts the mutation that is awaited and the list is fetched
StoreAccepts(data) ==
    /\ mounted
    /\ request.returned = "pending"
    /\ Install(storeAccepted(Cur, data))
    /\ lastEvent' = [Ev("storeAccepted") EXCEPT !.active = request.id]
    /\ UNCHANGED <<dndActive, pointer, nDrags, nResizes>>

\* an online mutation was accepted and its follow-up fetch is issued; the
\* store answers with data, the response is on its way
FetchIssue(data) ==
    /\ mounted
    /\ fetches.issued < MaxFetches
    /\ Install(fetchIssued(Cur, data))
    /\ lastEvent' = Ev("fetchIssued")
    /\ UNCHANGED <<dndActive, pointer, nDrags, nResizes>>

\* a response arrives, in any order
FetchComplete(f) ==
    /\ mounted
    /\ f \in fetches.inflight
    /\ Install(fetchCompleted(Cur, f))
    /\ lastEvent' = Ev("fetchCompleted")
    /\ UNCHANGED <<dndActive, pointer, nDrags, nResizes>>

\* the DndContext activates a drag and calls onDragStart
DragStart(id) ==
    /\ mounted
    /\ dndActive = NoDrag
    /\ Draggable(id)
    /\ id \notin resizeListeners
    /\ Install(handleGlobalDragStart(Cur))
    /\ dndActive' = id
    /\ lastEvent' = Ev("dragStart")
    /\ UNCHANGED <<pointer, nDrags, nResizes>>

\* the pointer is released: the DndContext calls onDragEnd; a discrete event
DragEnd(event) ==
    /\ mounted
    /\ dndActive # NoDrag
    /\ event.active = dndActive
    /\ event.hasDelta => nDrags < MaxDrags
    /\ Install(Commit(handleGlobalDragEnd(Cur, event)))
    /\ dndActive' = NoDrag
    /\ nDrags' = IF event.hasDelta THEN nDrags + 1 ELSE nDrags
    /\ UNCHANGED nResizes
    /\ lastEvent' = IF event.hasDelta THEN EvDrop(event, viewState.scale)
                                       ELSE Ev("dragEnd")
    /\ UNCHANGED pointer

\* the DndContext cancels the drag (Escape, a lost pointer, a hidden tab): it
\* calls onDragCancel, and TechList passes none
DragCancel ==
    /\ mounted
    /\ dndActive # NoDrag
    /\ dndActive' = NoDrag
    /\ lastEvent' = Ev("dragCancel")
    /\ UNCHANGED <<viewState, viewNext, positions, sizes, formPos, formSize,
                   logoPos, techs, isDraggingItem, isPanning, rendered,
                   autoPanIntervalRef, intervals, autoPanListeners,
                   currentPanVelocity, lastPanRef, panListeners, isResizing,
                   resizeStart, resizeListeners, storage, mounted, error,
                   request, fetches, viewport, pointer, nDrags, nResizes>>

\* a mousemove on the window: every registered listener runs
MouseMove(p) ==
    /\ mounted
    /\ "mousemove" \in autoPanListeners \cup panListeners \/ resizeListeners # {}
    /\ LET edge == IF "mousemove" \in autoPanListeners THEN onEdgeMove(Cur, p) ELSE Cur
           pan == IF "mousemove" \in panListeners THEN handleMouseMove(edge, p) ELSE edge
           next == ResizeMoveAll(pan, resizeListeners, p)
       IN  InPanBound(next) /\ Install(next)
    /\ pointer' = p
    /\ lastEvent' = Ev("mousemove")
    /\ UNCHANGED <<dndActive, nDrags, nResizes>>

\* a touchmove on the window with one touch
TouchMove(p) ==
    /\ mounted
    /\ "touchmove" \in autoPanListeners
    /\ Install(onEdgeMove(Cur, p))
    /\ pointer' = p
    /\ lastEvent' = Ev("touchmove")
    /\ UNCHANGED <<dndActive, nDrags, nResizes>>

\* the auto-pan interval fires
Tick ==
    /\ mounted
    /\ intervals > 0
    /\ InPanBound(AutoPanTick(Cur))
    /\ Install(AutoPanTick(Cur))
    /\ lastEvent' = Ev("tick")
    /\ UNCHANGED <<dndActive, pointer, nDrags, nResizes>>

\* a mousedown that reaches the app container; a discrete event
MouseDown(target, button, p) ==
    /\ mounted
    /\ Install(Commit(handleMouseDown(Cur, target, button, p)))
    /\ pointer' = p
    /\ lastEvent' = [Ev("mousedown") EXCEPT !.target = target, !.button = button]
    /\ UNCHANGED <<dndActive, nDrags, nResizes>>

\* a mouseup on the window while the background pan listens; a discrete event
MouseUp ==
    /\ mounted
    /\ "mouseup" \in panListeners \/ resizeListeners # {}
    /\ LET pan == IF "mouseup" \in panListeners THEN handleMouseUp(Cur) ELSE Cur
       IN  Install(Commit(ResizeMouseUp(pan)))
    /\ lastEvent' = Ev("mouseup")
    /\ UNCHANGED <<dndActive, pointer, nDrags, nResizes>>

\* a mouseup on the window that no listener of the app hears
StrayMouseUp ==
    /\ mounted
    /\ "mouseup" \notin panListeners /\ resizeListeners = {}
    /\ Install(Cur)
    /\ lastEvent' = Ev("mouseup")
    /\ UNCHANGED <<dndActive, pointer, nDrags, nResizes>>

\* onDragEnd called while the DndContext drags nothing, with an event that
\* carries no delta; a discrete event
StrayDragEnd(id) ==
    /\ mounted
    /\ dndActive = NoDrag
    /\ Install(Commit(handleGlobalDragEnd(Cur, DragEventNoDelta(id))))
    /\ lastEvent' = [Ev("dragEnd") EXCEPT !.active = id]
    /\ UNCHANGED <<dndActive, pointer, nDrags, nResizes>>

\* a mousedown on the resize handle of a component; stopPropagation keeps it
\* from the app container; a discrete event
ResizeStart(id, p) ==
    /\ mounted
    /\ id \in Resizables
    /\ Draggable(id)
    /\ nResizes < MaxResizes
    /\ Install(Commit(handleResizeStart(Cur, id, p)))
    /\ pointer' = p
    /\ nResizes' = nResizes + 1
    /\ lastEvent' = [Ev("resizeStart") EXCEPT !.active = id]
    /\ UNCHANGED <<dndActive, nDrags>>

\* clicks on the zoom controls; discrete events; the record of the event
\* keeps the scale the click found, and the record of a zoomOut that comes
\* directly after a zoomIn also the scale that zoomIn found
ZoomIn ==
    /\ mounted
    /\ Install(Commit(handleZoomIn(Cur)))
    /\ lastEvent' = [Ev("zoomIn") EXCEPT !.scale = viewNext.scale]
    /\ UNCHANGED <<dndActive, pointer, nDrags, nResizes>>

ZoomOut ==
    /\ mounted
    /\ Install(Commit(handleZoomOut(Cur)))
    /\ lastEvent' = [Ev("zoomOut") EXCEPT
                         !.scale = viewNext.scale,
                         !.zoomedFrom = IF lastEvent.type = "zoomIn"
                                        THEN lastEvent.scale ELSE 0]
    /\ UNCHANGED <<dndActive, pointer, nDrags, nResizes>>

Reset ==
    /\ mounted
    /\ Install(Commit(handleReset(Cur)))
    /\ lastEvent' = [Ev("reset") EXCEPT !.scale = viewNext.scale]
    /\ UNCHANGED <<dndActive, pointer, nDrags, nResizes>>

\* a wheel event on the app container; the record keeps deltaX and deltaY
Wheel(ctrlKey, deltaX, deltaY) ==
    /\ mounted
    /\ InPanBound(handleWheel(Cur, ctrlKey, deltaX, deltaY))
    /\ Install(handleWheel(Cur, ctrlKey, deltaX, deltaY))
    /\ lastEvent' = [Ev(IF ctrlKey THEN "wheelZoom" ELSE "wheelPan") EXCEPT
                         !.delta = [x |-> deltaX, y |-> deltaY]]
    /\ UNCHANGED <<dndActive, pointer, nDrags, nResizes>>

\* ------------------------------------------------------------ start state
\* the state after the first render: every useState initializer has read its
\* blob, every effect has run once
LoadedSized(viewBlob, posBlob, formPosBlob, logoPosBlob, sizesBlob, formSizeBlob, vp) ==
    /\ viewState = LoadView(viewBlob)
    /\ viewNext = LoadView(viewBlob)
    /\ positions = LoadPositions(posBlob)
    /\ sizes = LoadSizes(sizesBlob)
    /\ formPos = LoadFormPos(formPosBlob)
    /\ formSize = LoadFormSize(formSizeBlob)
    /\ logoPos = LoadLogoPos(logoPosBlob)
    /\ techs = <<>>
    /\ isDraggingItem = FALSE
    /\ isPanning = FALSE
    /\ rendered = [isDraggingItem |-> FALSE, isPanning |-> FALSE, techs |-> <<>>]
    /\ autoPanIntervalRef = FALSE
    /\ intervals = 0
    /\ autoPanListeners = {}
    /\ currentPanVelocity = ZeroVelocity
    /\ lastPanRef = Pt(0, 0)
    /\ panListeners = {}
    /\ isResizing = {}
    /\ resizeStart = [id \in Resizables |-> NoResizeStart]
    /\ resizeListeners = {}
    /\ storage = [positions |-> Blob(LoadPositions(posBlob)),
                  sizes |-> Blob(LoadSizes(sizesBlob)),
                  formPos |-> Blob(LoadFormPos(formPosBlob)),
                  formSize |-> Blob(LoadFormSize(formSizeBlob)),
                  logoPos |-> Blob(LoadLogoPos(logoPosBlob)),
                  view |-> Blob(LoadView(viewBlob))]
    /\ mounted = TRUE
    /\ error = ""
    /\ request = NoRequest
    /\ fetches = NoFetches
    /\ dndActive = NoDrag
    /\ viewport = vp
    /\ pointer = Pt(0, 0)
    /\ nDrags = 0
    /\ nResizes = 0
    /\ lastEvent = Ev("mount")

\* the start state when no size was ever stored
Loaded(viewBlob, posBlob, formPosBlob, logoPosBlob, vp) ==
    LoadedSized(viewBlob, posBlob, formPosBlob, logoPosBlob, NoBlob(<<>>),
                NoBlob(<<>>), vp)

View(x, y, scale) == [x |-> x, y |-> y, scale |-> scale]

Viewport(vw, vh) == [vw |-> vw, vh |-> vh]

\* ------------------------------------------- entity drags and the auto-pan
SavedViews == {NoBlob(View(0, 0, DefaultScale)), Blob(View(0, 0, 2000))}

SavedPositions == {NoBlob(<<>>), Blob([k \in {"1"} |-> Pos(300, 400)])}

TechLists == {<<NumId("1")>>, <<StrId("2"), NumId("1")>>}

Entities == CardIds \cup {FormId, LogoId}

Deltas == {[x |-> 100, y |-> 40]}

Pointers == {Pt(50, 400), Pt(600, 400)}

Init ==
    \E viewBlob \in SavedViews, posBlob \in SavedPositions :
        Loaded(viewBlob, posBlob, NoBlob(Pos(0, 0)), NoBlob(Pos(0, 0)),
               Viewport(1200, 800))

Next ==
    \/ Render
    \/ \E data \in TechLists : SetTechs(data)
    \/ \E id \in Entities : DragStart(id)
    \/ \E delta \in Deltas : DragEnd(DragEvent(dndActive, delta))
    \/ DragEnd(DragEventNoDelta(dndActive))
    \/ DragCancel
    \/ \E p \in Pointers : MouseMove(p)
    \/ \E p \in Pointers : TouchMove(p)
    \/ Tick

Spec == Init /\ [][Next]_vars

\* ------------------------------------------------------------------ claims
\* stored position of an entity in a layout (cards fall back to the origin)
PosIn(id, cards, form, logo) ==
    IF id = FormId THEN form
    ELSE IF id = LogoId THEN logo
    ELSE IF Key(id) \in DOMAIN cards THEN cards[Key(id)]
    ELSE Pos(0, 0)

\* C2: however an entity drag terminates (drop, cancellation, abort), once the
\* pending render has run no auto-pan interval is alive and no auto-pan
\* listener (mousemove, touchmove) is left on the window until the next drag
C2_EndedDragLeavesNothing ==
    (dndActive = NoDrag /\ ~Dirty(Cur)) => (intervals = 0 /\ autoPanListeners = {})

\* C3: in the state that handling a drag end leaves, before any other event
\* is dispatched, the pan velocity is {0,0}, the tick interval is cleared and
\* the edge-detection listeners are removed
C3_DragEndTearsDown ==
    lastEvent.type = "dragEnd" =>
        /\ currentPanVelocity = ZeroVelocity
        /\ intervals = 0
        /\ ~autoPanIntervalRef
        /\ autoPanListeners = {}

\* a drag that auto-panned the camera has just been dropped
C3_Witness == lastEvent.type = "dragEnd" /\ viewNext.x # 0

\* C4: at most one tick interval exists, one exists only while an entity drag
\* is active, and pointer moves (into or out of the edge zone) neither create
\* nor destroy an interval
C4_OneIntervalWhileDragging ==
    [][/\ intervals' <= 1
       /\ intervals' > 0 => dndActive' # NoDrag
       /\ lastEvent'.type \in {"mousemove", "touchmove"} => intervals' = intervals]_vars

\* C7: a tick adds the velocity to the pan offset (nothing when it is zero)
\* and changes neither the scale nor any entity position or size
C7_TickAddsVelocity ==
    [][lastEvent'.type = "tick" =>
        /\ viewNext'.x = viewNext.x + currentPanVelocity.dx
        /\ viewNext'.y = viewNext.y + currentPanVelocity.dy
        /\ currentPanVelocity = ZeroVelocity => viewNext' = viewNext
        /\ viewNext'.scale = viewNext.scale
        /\ viewState' = viewState
        /\ positions' = positions /\ formPos' = formPos /\ logoPos' = logoPos
        /\ sizes' = sizes /\ formSize' = formSize]_vars

\* a tick has run with the pointer in the edge zone
C7_Witness == lastEvent.type = "tick" /\ currentPanVelocity # ZeroVelocity /\ viewNext.x # 0

\* C9: while an entity is dragged its stored position changes in no step but
\* the drag end, which writes the final value
C9_PositionWrittenAtDragEnd ==
    [][dndActive # NoDrag =>
        IF lastEvent'.type = "dragEnd" /\ lastEvent'.hasDelta
        THEN PosIn(dndActive, positions', formPos', logoPos') =
                 Moved(PosIn(dndActive, positions, formPos, logoPos),
                       toCanvasDelta(lastEvent'.delta, viewState.scale))
        ELSE PosIn(dndActive, positions', formPos', logoPos') =
                 PosIn(dndActive, positions, formPos, logoPos)]_vars

\* a card was dropped after the item list changed and the camera auto-panned
\* during its drag
C9_Witness ==
    /\ lastEvent.type = "dragEnd" /\ lastEvent.hasDelta
    /\ lastEvent.active = NumId("1")
    /\ viewNext.x # 0
    /\ Len(techs) = 2

\* ------------------------------------------------- drops at varied scales
DropViews == {NoBlob(View(0, 0, DefaultScale)), Blob(View(0, 0, 500)),
              Blob(View(0, 0, 2000))}

DropPositions == {Blob([k \in {"1"} |-> Pos(300, 400)])}

DropDeltas == {[x |-> 100, y |-> 40], [x |-> -30, y |-> -500]}

InitDrop ==
    \E viewBlob \in DropViews, posBlob \in DropPositions :
        Loaded(viewBlob, posBlob, NoBlob(Pos(0, 0)), NoBlob(Pos(0, 0)),
               Viewport(1200, 800))

NextDrop ==
    \/ Render
    \/ SetTechs(<<StrId("2"), NumId("1")>>)
    \/ \E id \in Entities : DragStart(id)
    \/ \E delta \in DropDeltas : DragEnd(DragEvent(dndActive, delta))
    \/ DragEnd(DragEventNoDelta(dndActive))
    \/ Wheel(TRUE, 0, -2000)
    \/ Unmount
    \/ Mount

SpecDrop == InitDrop /\ [][NextDrop]_vars

\* a = b + 1000 * k / s for fractions a, b and integers k, s, by cross
\* multiplication
IsSum(a, b, k, s) == a.n * b.d * s = a.d * (b.n * s + 1000 * k * b.d)

C10_DropMovesOnlyItsEntity ==
    [][lastEvent'.type = "dragEnd" =>
        LET id == dndActive
            isCard == id \notin {FormId, LogoId}
        IN  /\ id # FormId => formPos' = formPos
            /\ id # LogoId => logoPos' = logoPos
            /\ \A k \in DOMAIN positions :
                   (~isCard \/ k # Key(id)) =>
                       k \in DOMAIN positions' /\ positions'[k] = positions[k]
            /\ \A k \in DOMAIN positions' \ DOMAIN positions :
                   \/ isCard /\ k = Key(id)
                   \/ \E i \in 1..Len(techs) : k = Key(techs[i])
            /\ sizes' = sizes
            /\ formSize' = formSize
            /\ viewNext' = viewNext]_vars

\* the card with the numeric id 1 was dropped: its entry, stored under the
\* key "1", moved and the entry of card "2" is still the grid slot
C10_Witness ==
    /\ lastEvent.type = "dragEnd" /\ lastEvent.hasDelta
    /\ lastEvent.active = NumId("1")
    /\ DOMAIN positions = {"1", "2"}
    /\ positions["1"] # Pos(300, 400)
    /\ positions["2"] = Pos(0, 400)
    /\ formPos = Pos(20, 140)

\* --------------------------------------------- the pointer near the edges
EdgeViewports == {Viewport(1200, 800), Viewport(150, 150)}

EdgeXs == {-20, 0, 49, 50, 60, 80, 99, 100, 101, 600, 1099, 1100, 1101, 1150, 1151, 1250}

EdgeYs == {-5, 50, 60, 99, 100, 400, 700, 701, 760, 900}

InitEdge ==
    \E vp \in EdgeViewports :
        Loaded(NoBlob(View(0, 0, DefaultScale)), NoBlob(<<>>), NoBlob(Pos(0, 0)),
               NoBlob(Pos(0, 0)), vp)

NextEdge ==
    \/ Render
    \/ DragStart(FormId)
    \/ DragEnd(DragEventNoDelta(dndActive))
    \/ \E x \in EdgeXs, y \in EdgeYs : MouseMove(Pt(x, y))
    \/ \E x \in EdgeXs, y \in EdgeYs : TouchMove(Pt(x, y))

SpecEdge == InitEdge /\ [][NextEdge]_vars

\* the last event was a move of the pointer that the auto-pan listened to
EdgeMoved == lastEvent.type \in {"mousemove", "touchmove"}

\* the velocity of one axis as the three cases state it, the first case that
\* applies deciding, in 1/PX pixel
PiecewiseAxis(c, extent) ==
    IF c < 100 THEN Min(25 * PX, ((100 - c) * PX) \div 2)
    ELSE IF c > extent - 100 THEN -Min(25 * PX, ((c - (extent - 100)) * PX) \div 2)
    ELSE 0

\* C5: after a move of the pointer to (x,y) in a viewport (vw,vh) the
\* auto-pan velocity is dx = min(25,(100-x)/2) if x < 100,
\* dx = -min(25,(x-(vw-100))/2) if x > vw-100, else 0, dy by the same rule on
\* y and vh, whatever the velocity was before; 1200x800 with the pointer at
\* (50,400) gives dx = 25, dy = 0
C5_VelocityByCases ==
    EdgeMoved =>
        /\ currentPanVelocity.dx = PiecewiseAxis(pointer.x, viewport.vw)
        /\ currentPanVelocity.dy = PiecewiseAxis(pointer.y, viewport.vh)
        /\ (viewport = Viewport(1200, 800) /\ pointer = Pt(50, 400)) =>
               currentPanVelocity = [dx |-> 25 * PX, dy |-> 0]

\* C6: the auto-pan velocity is {0,0} whenever the pointer is more than 100px
\* away from every edge of the viewport, and both dx and dy are nonzero
\* whenever it is less than 100px away from two adjacent edges
C6_ZeroInsideNonzeroInCorner ==
    EdgeMoved =>
        LET nearX == pointer.x < 100 \/ pointer.x > viewport.vw - 100
            nearY == pointer.y < 100 \/ pointer.y > viewport.vh - 100
            inside == /\ pointer.x > 100 /\ pointer.x < viewport.vw - 100
                      /\ pointer.y > 100 /\ pointer.y < viewport.vh - 100
        IN  /\ inside => currentPanVelocity = ZeroVelocity
            /\ (nearX /\ nearY) =>
                   currentPanVelocity.dx # 0 /\ currentPanVelocity.dy # 0

\* the pointer was moved to the corner at the bottom left, one pixel inside
\* the two zones: half a pixel per tick on both axes
C6_Witness ==
    /\ EdgeMoved
    /\ viewport = Viewport(1200, 800)
    /\ pointer = Pt(99, 701)
    /\ currentPanVelocity = [dx |-> 1, dy |-> -1]

\* ------------------------------------------------------------- the camera
\* the camera blob is written by the persistence effect, from a camera the
\* program has had
CameraViews == {NoBlob(View(0, 0, DefaultScale)), Blob(View(-50 * PX, 0, 4900))}

CameraPointers == {Pt(50, 400), Pt(100, 400)}

InitCamera ==
    \E viewBlob \in CameraViews :
        Loaded(viewBlob, NoBlob(<<>>), NoBlob(Pos(0, 0)), NoBlob(Pos(0, 0)),
               Viewport(1200, 800))

NextCamera ==
    \/ Render
    \/ ZoomIn
    \/ ZoomOut
    \/ Reset
    \/ \E dy \in {-300, 7000} : Wheel(TRUE, 0, dy)
    \/ \E dx \in {-50, 50} : Wheel(FALSE, dx, 0)
    \/ \E p \in CameraPointers : dndActive = NoDrag /\ MouseDown("background", 0, p)
    \/ \E p \in CameraPointers : MouseMove(p)
    \/ MouseUp
    \/ DragStart(LogoId)
    \/ DragEnd(DragEventNoDelta(dndActive))
    \/ Tick

SpecCamera == InitCamera /\ [][NextCamera]_vars

SizeBlobs ==
    {[sizes |-> NoBlob(<<>>), formSize |-> NoBlob(<<>>)],
     [sizes |-> Blob([k \in {"1"} |-> [w |-> 600, h |-> 60]]),
      formSize |-> Blob([w |-> 320, h |-> 600, auto |-> FALSE])]}

\* the components resized here: a card and the form widget
ResizeIds == {NumId("1"), FormId}

ResizeViews == {NoBlob(View(0, 0, DefaultScale)), Blob(View(0, 0, 2000))}

\* presses on a handle, small moves, and moves far beyond the limits
ResizePointers == {Pt(500, 300), Pt(520, 310), Pt(230, 238), Pt(10220, 900)}

ResizePresses == {Pt(500, 300), Pt(520, 310)}

InitResize ==
    \E viewBlob \in ResizeViews, blobs \in SizeBlobs :
        LoadedSized(viewBlob, NoBlob(<<>>), NoBlob(Pos(0, 0)), NoBlob(Pos(0, 0)),
                    blobs.sizes, blobs.formSize, Viewport(1200, 800))

NextResize ==
    \/ Render
    \/ SetTechs(<<StrId("2"), NumId("1")>>)
    \/ \E id \in ResizeIds, p \in ResizePresses : ResizeStart(id, p)
    \/ \E p \in ResizePointers : MouseMove(p)
    \/ MouseUp
    \/ \E id \in ResizeIds : DragStart(id)
    \/ DragEnd(DragEventNoDelta(dndActive))

SpecResize == InitResize /\ [][NextResize]_vars

\* a card size within the limits of a card
CardSizeOk(size) ==
    /\ size.w >= 200 /\ size.w <= 600
    /\ size.h >= 60 /\ size.h <= 400

\* a form size with a numeric height within the limits of the form widget
FormSizeOk(size) ==
    /\ size.w >= 320 /\ size.w <= 600
    /\ ~size.auto
    /\ size.h >= 200 /\ size.h <= 600

\* the last step was a window mousemove heard by a resize effect
ResizeMoved == lastEvent.type = "mousemove" /\ resizeListeners # {}

\* C11: every size a resize move writes is within the limits of its class,
\* however far the pointer went: cards 200..600 x 60..400, form widget
\* 320..600 x 200..600; a card resize asking for height 10 writes 60, one
\* asking for width 10000 writes 600
C11_ResizeWritesWithinBounds ==
    ResizeMoved =>
        /\ \A id \in resizeListeners \ {FormId} :
              /\ Key(id) \in DOMAIN sizes
              /\ CardSizeOk(sizes[Key(id)])
              /\ resizeStart[id].h + (pointer.y - resizeStart[id].mouseY) = 10 =>
                     sizes[Key(id)].h = 60
              /\ resizeStart[id].w + (pointer.x - resizeStart[id].mouseX) = 10000 =>
                     sizes[Key(id)].w = 600
        /\ FormId \in resizeListeners => FormSizeOk(formSize)

\* card 1, never sized before, was grabbed at (500,300) and the pointer went
\* to (10220,900): width 280 + 9720 = 10000 is stored as 600
C11_Witness ==
    /\ ResizeMoved
    /\ NumId("1") \in resizeListeners
    /\ resizeStart[NumId("1")] =
           [mouseX |-> 500, mouseY |-> 300, w |-> 280, h |-> 72, auto |-> FALSE]
    /\ pointer = Pt(10220, 900)
    /\ sizes["1"] = [w |-> 600, h |-> 400]

\* a stored form size: the height is "auto" or a number within the limits
StoredFormSizeOk(size) ==
    /\ size.w >= 320 /\ size.w <= 600
    /\ size.auto \/ (size.h >= 200 /\ size.h <= 600)

Clamped(v, lo, hi) == IF v < lo THEN lo ELSE IF v > hi THEN hi ELSE v

\* C13: every move of a resize gesture writes
\* clamp(origin size + (pointer - origin pointer)) to the layout store, the
\* delta in raw screen pixels, whatever the camera scale and whatever the
\* size stored before the move; the origin is the size and the pointer of
\* the press and no move changes it
C13_ResizeFromOrigin ==
    [][/\ lastEvent'.type = "resizeStart" =>
            LET id == lastEvent'.active
                o == resizeStart'[id]
            IN  /\ o.mouseX = pointer'.x /\ o.mouseY = pointer'.y
                /\ id # FormId =>
                       /\ o.w = IF Key(id) \in DOMAIN sizes
                                THEN sizes[Key(id)].w ELSE 280
                       /\ o.h = IF Key(id) \in DOMAIN sizes
                                THEN sizes[Key(id)].h ELSE 72
                /\ id = FormId =>
                       /\ o.w = formSize.w
                       /\ o.auto = formSize.auto
                       /\ ~o.auto => o.h = formSize.h
       /\ lastEvent'.type = "mousemove" =>
            /\ resizeStart' = resizeStart
            /\ \A id \in resizeListeners \ {FormId} :
                  LET o == resizeStart[id]
                  IN  /\ Key(id) \in DOMAIN sizes'
                      /\ sizes'[Key(id)].w =
                             Clamped(o.w + (pointer'.x - o.mouseX), 200, 600)
                      /\ sizes'[Key(id)].h =
                             Clamped(o.h + (pointer'.y - o.mouseY), 60, 400)
            /\ FormId \in resizeListeners =>
                  LET o == resizeStart[FormId]
                      oh == IF o.auto THEN 300 ELSE o.h
                  IN  /\ formSize'.w = Clamped(o.w + (pointer'.x - o.mouseX), 320, 600)
                      /\ formSize'.h = Clamped(oh + (pointer'.y - o.mouseY), 200, 600)]_vars

\* at scale 2 card 1, grabbed at (500,300) with its size 280x72, follows the
\* pointer to (520,310): 300x82, the raw delta of 20 and 10 pixels
C13_Witness ==
    /\ ResizeMoved
    /\ viewState.scale = 2000
    /\ NumId("1") \in resizeListeners
    /\ resizeStart[NumId("1")] =
           [mouseX |-> 500, mouseY |-> 300, w |-> 280, h |-> 72, auto |-> FALSE]
    /\ pointer = Pt(520, 310)
    /\ sizes["1"] = [w |-> 300, h |-> 82]

\* C14: when the height of the form is "auto" at the press on its handle,
\* the first move stores the number clamp(300 + dy, 200, 600), and once the
\* stored height is a number no step makes it "auto" again
C14_AutoHeightBecomesNumber ==
    [][/\ (lastEvent'.type = "mousemove" /\ FormId \in resizeListeners
              /\ resizeStart[FormId].auto) =>
            /\ ~formSize'.auto
            /\ formSize'.h =
                   Clamped(300 + (pointer'.y - resizeStart[FormId].mouseY), 200, 600)
       /\ ~formSize.auto => ~formSize'.auto
       /\ (formSize.auto /\ ~formSize'.auto) =>
              lastEvent'.type = "mousemove" /\ FormId \in resizeListeners]_vars

\* the form, of height "auto", was grabbed at (500,300) and the pointer went
\* up by 62: the height 238 is stored
C14_Witness ==
    /\ ResizeMoved
    /\ FormId \in resizeListeners
    /\ resizeStart[FormId].auto
    /\ resizeStart[FormId].mouseY = 300
    /\ pointer = Pt(230, 238)
    /\ formSize = [w |-> 320, auto |-> FALSE, h |-> 238]

\* C15: in every reachable state no entity is both being dragged and being
\* resized
C15_NeverDraggedAndResized ==
    \A id \in Resizables : ~(dndActive = id /\ id \in isResizing)

\* ------------------------------------------------------ the background pan
\* the kinds of element a press can land on: the empty background, the logo,
\* the controls, the form, and the parts of a card in its three display modes
PressTargets ==
    {"background", "logo", "button", "input", "link", "formWidget",
     "card", "cardButton", "cardEdit", "cardEditInput",
     "cardDelete", "cardDeleteButton"}

\* e.button: primary, middle, secondary
MouseButtons == {0, 1, 2}

PanPresses == {Pt(400, 300)}

PanPointers == {Pt(400, 300), Pt(420, 300), Pt(400, 330)}

InitPan ==
    \E viewBlob \in SavedViews :
        Loaded(viewBlob, NoBlob(<<>>), NoBlob(Pos(0, 0)), NoBlob(Pos(0, 0)),
               Viewport(1200, 800))

NextPan ==
    \/ Render
    \/ \E target \in PressTargets, button \in MouseButtons, p \in PanPresses :
           MouseDown(target, button, p)
    \/ \E p \in PanPresses : ResizeStart(FormId, p)
    \/ \E p \in PanPointers : MouseMove(p)
    \/ MouseUp

SpecPan == InitPan /\ [][NextPan]_vars

\* the elements the pan must leave alone: buttons, inputs, links, the resize
\* handle, the form, and every part of a card in every display mode
PanExempt ==
    {"button", "input", "link", "formWidget", "resizeHandle",
     "card", "cardButton", "cardEdit", "cardEditInput",
     "cardDelete", "cardDeleteButton"}

\* C16: a press starts a background pan exactly when its target is not
\* inside an interactive element (button, input, link, card in any display
\* mode, resize handle) and the button is 0 or 1; every other press, and a
\* press on a resize handle, leaves the pan as it was
C16_PressStartsPanIffBackground ==
    [][/\ lastEvent'.type = "mousedown" =>
              IF lastEvent'.target \notin PanExempt /\ lastEvent'.button \in {0, 1}
              THEN isPanning' /\ lastPanRef' = pointer'
              ELSE /\ isPanning' = isPanning
                   /\ lastPanRef' = lastPanRef
                   /\ panListeners' = panListeners
       /\ lastEvent'.type = "resizeStart" =>
              /\ isPanning' = isPanning
              /\ lastPanRef' = lastPanRef]_vars

\* C17: while a background pan is active each mouse move adds the pointer
\* minus the last recorded pointer to the pan and records the pointer, so
\* pan minus pointer is the same before and after; the scale is unchanged;
\* a move while no pan is active changes neither the camera nor the record
C17_PanMoveAddsPointerDelta ==
    [][lastEvent'.type = "mousemove" =>
           IF isPanning
           THEN /\ viewNext'.x = viewNext.x + (pointer'.x - lastPanRef.x) * PX
                /\ viewNext'.y = viewNext.y + (pointer'.y - lastPanRef.y) * PX
                /\ viewNext'.scale = viewNext.scale
                /\ lastPanRef' = pointer'
                /\ viewNext'.x - lastPanRef'.x * PX = viewNext.x - lastPanRef.x * PX
                /\ viewNext'.y - lastPanRef'.y * PX = viewNext.y - lastPanRef.y * PX
           ELSE /\ viewNext' = viewNext
                /\ lastPanRef' = lastPanRef]_vars

\* from the default camera a pan pressed at (400,300) was moved by way of
\* (420,300) to (400,330): the pan is the last pointer minus the first
C17_Witness ==
    /\ lastEvent.type = "mousemove"
    /\ isPanning
    /\ viewState = View(20 * PX, 0, DefaultScale)
    /\ pointer = Pt(400, 330)
    /\ lastPanRef = Pt(400, 330)
    /\ viewNext = View(0, 30 * PX, DefaultScale)

\* C19: a reset gives exactly the camera {0, 0, 1}, queued and on screen,
\* whatever the camera was before and also in the middle of a background
\* pan or of an auto-pan
C19_ResetGivesDefaultCamera ==
    lastEvent.type = "reset" =>
        /\ viewNext = [x |-> 0, y |-> 0, scale |-> MILLI]
        /\ viewState = [x |-> 0, y |-> 0, scale |-> MILLI]

\* the reset came at a scale other than 1 while the background pan was
\* active and the auto-pan interval ran with a velocity
C19_Witness ==
    /\ lastEvent.type = "reset"
    /\ lastEvent.scale # MILLI
    /\ isPanning /\ "mousemove" \in panListeners
    /\ dndActive # NoDrag /\ intervals > 0
    /\ currentPanVelocity # ZeroVelocity
    /\ viewNext = [x |-> 0, y |-> 0, scale |-> MILLI]

\* ---------------------------------------------------------- the zoom steps
\* wheel zooms of 0.05 bring the scale off the grid of the zoom steps
ZoomViews == {NoBlob(View(0, 0, DefaultScale)), Blob(View(0, 0, 4950))}

ZoomWheels == {-50, 50}

InitZoom ==
    \E viewBlob \in ZoomViews :
        Loaded(viewBlob, NoBlob(<<>>), NoBlob(Pos(0, 0)), NoBlob(Pos(0, 0)),
               Viewport(1200, 800))

NextZoom ==
    \/ Render
    \/ ZoomIn
    \/ ZoomOut
    \/ Reset
    \/ \E dy \in ZoomWheels : Wheel(TRUE, 0, dy)
    \/ \E dx \in {-50, 50} : Wheel(FALSE, dx, 0)

SpecZoom == InitZoom /\ [][NextZoom]_vars

\* C18: zoomIn sets the scale to min(scale + 0.1, 5), zoomOut sets it to
\* max(scale - 0.1, 0.1), and both leave the pan as it was
C18_ZoomStepsClamped ==
    [][/\ lastEvent'.type = "zoomIn" =>
              /\ viewNext'.scale = (IF viewNext.scale + MILLI \div 10 < 5 * MILLI
                                    THEN viewNext.scale + MILLI \div 10 ELSE 5 * MILLI)
              /\ viewNext'.x = viewNext.x /\ viewNext'.y = viewNext.y
              /\ viewState' = viewNext'
       /\ lastEvent'.type = "zoomOut" =>
              /\ viewNext'.scale = (IF viewNext.scale - MILLI \div 10 > MILLI \div 10
                                    THEN viewNext.scale - MILLI \div 10 ELSE MILLI \div 10)
              /\ viewNext'.x = viewNext.x /\ viewNext'.y = viewNext.y
              /\ viewState' = viewNext']_vars

\* a zoomOut at scale 0.15 with the camera panned gave 0.1 and kept the pan
C18_Witness ==
    /\ lastEvent.type = "zoomOut"
    /\ lastEvent.scale = 150
    /\ viewNext.scale = MILLI \div 10
    /\ viewNext.x # 0

\* C20 as stated: from every starting scale other than 0.1 and 5.0 a zoomIn
\* followed by a zoomOut gives the starting scale again
C20_ZoomInOutReturns ==
    (/\ lastEvent.type = "zoomOut"
     /\ lastEvent.zoomedFrom \notin {0, MILLI \div 10, 5 * MILLI}) =>
        viewNext.scale = lastEvent.zoomedFrom

\* C20, amended: from a starting scale in [0.1, 4.9] a zoomIn followed by a
\* zoomOut gives the starting scale again; from a starting scale in
\* (4.9, 5.0] it gives 4.9; zoomIn at 5.0 stays at 5.0 and zoomOut at 0.1
\* stays at 0.1
C20_ZoomInOutReturnsBelowLastStep ==
    /\ (lastEvent.type = "zoomOut" /\ lastEvent.zoomedFrom # 0) =>
           viewNext.scale = (IF lastEvent.zoomedFrom <= 4900
                             THEN lastEvent.zoomedFrom ELSE 4900)
    /\ (lastEvent.type = "zoomIn" /\ lastEvent.scale = 5 * MILLI) =>
           viewNext.scale = 5 * MILLI
    /\ (lastEvent.type = "zoomOut" /\ lastEvent.scale = MILLI \div 10) =>
           viewNext.scale = MILLI \div 10

\* a zoomIn at 4.95 gave 5.0 and the zoomOut after it 4.9
C20_Witness ==
    /\ lastEvent.type = "zoomOut"
    /\ lastEvent.zoomedFrom = 4950
    /\ lastEvent.scale = 5 * MILLI
    /\ viewNext.scale = 4900

\* -------------------------------------------------------- the wheel events
\* the scale in 1/MILLI held between 0.1 and 5
ClampedScale(s) ==
    IF s < MILLI \div 10 THEN MILLI \div 10 ELSE IF s > 5 * MILLI THEN 5 * MILLI ELSE s

\* C21: a wheel event with the zoom modifier sets the scale of the camera to
\* clamp(scale - deltaY * 0.001, 0.1, 5) and leaves the pan alone; a wheel
\* event without it subtracts (deltaX, deltaY) from the pan, not divided by
\* the scale, and leaves the scale alone
C21_WheelZoomsOrPans ==
    [][/\ lastEvent'.type = "wheelZoom" =>
              /\ viewNext'.scale = ClampedScale(viewNext.scale - lastEvent'.delta.y)
              /\ viewNext'.x = viewNext.x /\ viewNext'.y = viewNext.y
       /\ lastEvent'.type = "wheelPan" =>
              /\ viewNext'.x = viewNext.x - lastEvent'.delta.x * PX
              /\ viewNext'.y = viewNext.y - lastEvent'.delta.y * PX
              /\ viewNext'.scale = viewNext.scale]_vars

\* ------------------------------------------------------ the grid placement
\* the ids of one item store are of one type and distinct
GridLists ==
    {<<NumId("1")>>,
     <<NumId("2"), NumId("1")>>,
     <<NumId("1"), NumId("2"), NumId("3"), NumId("4")>>,
     <<NumId("5"), NumId("4"), NumId("3"), NumId("2"), NumId("1")>>}

\* no blob, or the blob of a layout where the cards 1 and 3 were dragged
GridPositions ==
    {NoBlob(<<>>), Blob([k \in {"1", "3"} |-> IF k = "1" THEN Pos(300, 400)
                                                ELSE Pos(10, 20)])}

\* container widths: three columns, two, a container narrower than a column,
\* and the width 0 that falls back to 900
GridViewports == {Viewport(900, 800), Viewport(600, 800), Viewport(200, 800),
                  Viewport(0, 800)}

InitGrid ==
    \E posBlob \in GridPositions, vp \in GridViewports :
        Loaded(NoBlob(View(0, 0, DefaultScale)), posBlob, NoBlob(Pos(0, 0)),
               NoBlob(Pos(0, 0)), vp)

NextGrid ==
    \/ Render
    \/ \E data \in GridLists \cup {<<>>} : SetTechs(data)
    \/ \E id \in {NumId("1"), NumId("2")} : DragStart(id)
    \/ DragEnd(DragEvent(dndActive, [x |-> -30, y |-> 40]))
    \/ DragEnd(DragEventNoDelta(dndActive))

SpecGrid == InitGrid /\ [][NextGrid]_vars

\* a render that runs the grid effect: the item list changed and is not empty
GridRuns == techs # rendered.techs /\ Len(techs) > 0

\* C22: the grid placement is additive: a render, with any item list and any
\* positions map, keeps every stored position as it is, removes no key, and
\* gives new entries only to items of the list that had none
C22_GridPlacementAdditive ==
    [][lastEvent'.type = "render" =>
           /\ \A k \in DOMAIN positions :
                  k \in DOMAIN positions' /\ positions'[k] = positions[k]
           /\ \A k \in DOMAIN positions' \ DOMAIN positions :
                  \E i \in 1..Len(techs) : Key(techs[i]) = k
           /\ GridRuns => \A i \in 1..Len(techs) : Key(techs[i]) \in DOMAIN positions']_vars

\* the cards 1 and 3 kept the positions loaded from the blob while the
\* others of a list of five were placed
C22_Witness ==
    /\ lastEvent.type = "render"
    /\ Len(techs) = 5
    /\ DOMAIN positions = {"1", "2", "3", "4", "5"}
    /\ positions["1"] = Pos(300, 400)
    /\ positions["3"] = Pos(10, 20)

NoLayout ==
    [positions |-> NoBlob(<<>>), sizes |-> NoBlob(<<>>),
     formPos |-> NoBlob(Pos(0, 0)),
     formSize |-> NoBlob([w |-> 0, h |-> 0, auto |-> FALSE]),
     logoPos |-> NoBlob(Pos(0, 0)), view |-> NoBlob(View(0, 0, 0))]

\* a layout the program wrote: a drag end stores negative coordinates as
\* they are
SavedLayout ==
    [positions |-> Blob([k \in {"1", "7"} |-> IF k = "1" THEN Pos(-30, 400)
                                                ELSE Pos(592, 488)]),
     sizes |-> Blob([k \in {"1"} |-> [w |-> 300, h |-> 82]]),
     formPos |-> Blob(Pos(20, -140)),
     formSize |-> Blob([w |-> 320, h |-> 600, auto |-> FALSE]),
     logoPos |-> Blob(Pos(-7, -9)),
     view |-> Blob([x |-> -20 * PX, y |-> 0, scale |-> 2000])]

\* what localStorage can hold when the page is opened
Storages ==
    {NoLayout, SavedLayout,
     [NoLayout EXCEPT !.view = Malformed(View(0, 0, 0))],
     [SavedLayout EXCEPT !.positions = Malformed(<<>>)],
     [SavedLayout EXCEPT !.formSize = Malformed([w |-> 0, h |-> 0, auto |-> FALSE])]}

InitLife ==
    \E stor \in Storages :
        /\ Holds(Unmounted(stor, Viewport(1200, 800)))
        /\ dndActive = NoDrag
        /\ pointer = Pt(0, 0)
        /\ nDrags = 0
        /\ nResizes = 0
        /\ lastEvent = Ev("closed")

NextLife ==
    \/ Mount
    \/ Unmount
    \/ Render
    \/ SetTechs(<<NumId("1")>>)
    \/ DragStart(FormId)
    \/ DragEnd(DragEvent(dndActive, [x |-> -900, y |-> 40]))
    \/ \E id \in {NumId("1"), FormId} : StrayDragEnd(id)
    \/ MouseDown("background", 0, Pt(70, 400))
    \/ MouseMove(Pt(50, 400))
    \/ MouseUp
    \/ StrayMouseUp
    \/ \E id \in {NumId("1"), FormId} : ResizeStart(id, Pt(70, 400))

SpecLife == InitLife /\ [][NextLife]_vars

\* the point p is the stored point v with each coordinate raised to zero
LoadedFrom(v, p) ==
    /\ p.x = (IF v.x.n < 0 THEN Whole(0) ELSE v.x)
    /\ p.y = (IF v.y.n < 0 THEN Whole(0) ELSE v.y)

\* C24: opening the page with stored positions gives every card of the
\* stored map, the form and the logo the stored point with each coordinate
\* raised to zero when negative; a stored point without a negative
\* coordinate is loaded as it is
C24_LoadClampsAtZero ==
    [][lastEvent'.type = "mount" =>
           /\ storage.positions.has =>
                  /\ DOMAIN positions' = DOMAIN storage.positions.val
                  /\ \A k \in DOMAIN positions' :
                         LoadedFrom(storage.positions.val[k], positions'[k])
           /\ storage.formPos.has => LoadedFrom(storage.formPos.val, formPos')
           /\ storage.logoPos.has => LoadedFrom(storage.logoPos.val, logoPos')
           /\ \A k \in DOMAIN positions' : positions'[k].x.n >= 0 /\ positions'[k].y.n >= 0
           /\ formPos'.x.n >= 0 /\ formPos'.y.n >= 0
           /\ logoPos'.x.n >= 0 /\ logoPos'.y.n >= 0]_vars

\* the page was opened with the saved layout: card 1 stored at x = -30 is at
\* x = 0, card 7 is where it was stored, the form stored at y = -140 is at
\* y = 0 and the logo stored at (-7, -9) is at the origin
C24_Witness ==
    /\ lastEvent.type = "mount"
    /\ positions = [k \in {"1", "7"} |-> IF k = "1" THEN Pos(0, 400) ELSE Pos(592, 488)]
    /\ formPos = Pos(20, 0)
    /\ logoPos = Pos(0, 0)

\* a blob that is missing or is not JSON
Invalid(blob) == ~blob.has \/ ~blob.parses

\* C25: opening the page never raises an error: the App is mounted, and each
\* of the six states whose blob is missing or malformed starts from its
\* default value
C25_InvalidBlobLoadsDefault ==
    [][(~mounted /\ lastEvent'.type \in {"mount", "loadError"}) =>
           /\ mounted'
           /\ lastEvent'.type = "mount"
           /\ Invalid(storage.positions) => positions' = <<>>
           /\ Invalid(storage.sizes) => sizes' = <<>>
           /\ Invalid(storage.formPos) => formPos' = Pos(20, 140)
           /\ Invalid(storage.formSize) => formSize' = [w |-> 360, h |-> 0, auto |-> TRUE]
           /\ Invalid(storage.logoPos) => logoPos' = Pos(400, 20)
           /\ Invalid(storage.view) => viewNext' = [x |-> 0, y |-> 0, scale |-> MILLI]]_vars

\* the blobs a run of the six persistence effects leaves for the state on
\* screen
Persisted ==
    [positions |-> Blob(positions), sizes |-> Blob(sizes),
     formPos |-> Blob(formPos), formSize |-> Blob(formSize),
     logoPos |-> Blob(logoPos), view |-> Blob(viewState)]

\* the value of the key k did not change in the step and its blob was the
\* value: the step leaves the blob alone
KeptBlob(k, unchanged) ==
    (unchanged /\ storage[k] = Persisted[k]) => storage'[k] = storage[k]

\* C26: when a render has run the persistence effects, the blob of each of
\* the six keys is the value on screen; and a step that does not change the
\* value of a key whose blob was up to date does not change that blob,
\* whatever it does to the other five
C26_BlobsFollowTheirValue ==
    [][/\ lastEvent'.type = "render" => storage' = Persisted'
       /\ KeptBlob("positions", positions' = positions)
       /\ KeptBlob("sizes", sizes' = sizes)
       /\ KeptBlob("formPos", formPos' = formPos)
       /\ KeptBlob("formSize", formSize' = formSize)
       /\ KeptBlob("logoPos", logoPos' = logoPos)
       /\ KeptBlob("view", viewState' = viewState)]_vars

\* a render after the form was resized from 360 to 340 wide: the blob of the
\* form size is the new size, the blobs of the form position and of the
\* camera are the untouched defaults
C26_Witness ==
    /\ lastEvent.type = "render"
    /\ formSize.w = 340
    /\ ~formSize.auto
    /\ storage.formSize = Blob(formSize)
    /\ storage.formPos = Blob(Pos(20, 140))
    /\ storage.view = Blob([x |-> 0, y |-> 0, scale |-> MILLI])

\* ------------------------------------------- mutations the store rejects
NextStore ==
    \/ Render
    \/ SetTechs(<<StrId("2"), NumId("1")>>)
    \/ TechCall("insert", NoDrag)
    \/ \E op \in {"update", "delete"} : TechCall(op, NumId("1"))
    \/ StoreRejects
    \/ \E data \in {<<StrId("2")>>, <<StrId("2"), NumId("1")>>} : StoreAccepts(data)
    \/ DragStart(NumId("1"))
    \/ \E delta \in Deltas : DragEnd(DragEvent(dndActive, delta))
    \/ Wheel(TRUE, 0, -2000)

SpecStore == InitPan /\ [][NextStore]_vars

\* the item list, the layout and the camera after the step are those of st
LayoutIs(st) ==
    /\ techs' = st.techs
    /\ positions' = st.positions
    /\ sizes' = st.sizes
    /\ formPos' = st.formPos
    /\ formSize' = st.formSize
    /\ logoPos' = st.logoPos
    /\ viewNext' = st.viewNext

\* C27: a mutation the store rejects returns false and sets the error
\* message, and neither sending it nor the rejection changes the item list,
\* a position, a size or the camera: sending it leaves what a render of the
\* queued updates leaves, the rejection leaves everything as it is, and the
\* position of a card whose remove failed is still in the map
C27_RejectedMutationChangesNothing ==
    [][/\ lastEvent'.type = "techCall" =>
              /\ LayoutIs(Commit(Cur))
              /\ request'.returned = "pending"
       /\ lastEvent'.type = "storeRejected" =>
              /\ request'.returned = "false"
              /\ request'.op = request.op
              /\ error' # ""
              /\ LayoutIs(Cur)
              /\ viewState' = viewState
              /\ \A i \in 1..Len(techs) :
                     Key(techs[i]) \in DOMAIN positions =>
                         /\ Key(techs[i]) \in DOMAIN positions'
                         /\ positions'[Key(techs[i])] = positions[Key(techs[i])]]_vars

\* the remove of card 1, dragged off its grid slot before, was rejected: false
\* came back, the message is set, the card is in the list and at its place
C27_Witness ==
    /\ lastEvent.type = "storeRejected"
    /\ request = [id |-> NumId("1"), op |-> "delete", returned |-> "false"]
    /\ error = "Erro ao remover tecnologia. Tente novamente."
    /\ techs = <<StrId("2"), NumId("1")>>
    /\ "1" \in DOMAIN positions
    /\ positions["1"] # Pos(0, 400)
    /\ nDrags = 1

\* C28: the end of a gesture that was not started changes nothing: a release
\* of the mouse button while no pan and no resize is active leaves every
\* state, ref and listener as it was, and a drag end without delta while no
\* drag is active leaves what a render of the queued updates leaves, which
\* is the state itself when no render is pending
C28_StrayGestureEndIsNoOp ==
    [][/\ (lastEvent'.type = "mouseup" /\ ~isPanning /\ isResizing = {}) =>
              Cur' = Cur /\ dndActive' = dndActive
       /\ (lastEvent'.type = "dragEnd" /\ dndActive = NoDrag /\ ~lastEvent'.hasDelta) =>
              /\ Cur' = Commit(Cur)
              /\ ~Dirty(Cur) => Cur' = Cur
              /\ positions' = Commit(Cur).positions
              /\ dndActive' = NoDrag]_vars

\* a drag end without delta for card 1 arrived with no drag active, before
\* the card was rendered: the render it flushed put the card on its grid
\* slot, the event moved nothing
C28_Witness ==
    /\ lastEvent.type = "dragEnd"
    /\ lastEvent.active = NumId("1")
    /\ ~lastEvent.hasDelta
    /\ dndActive = NoDrag
    /\ nDrags = 0
    /\ techs = <<NumId("1")>>
    /\ positions = [k \in {"1"} |-> Pos(0, 400)]
    /\ formPos = Pos(20, 140)

\* C29: while the App is not mounted no window listener of the auto-pan, of
\* the background pan or of a resize is registered and no auto-pan interval
\* is running, whatever gesture was in progress when it was unmounted
C29_UnmountLeavesNothing ==
    ~mounted =>
        /\ intervals = 0
        /\ autoPanListeners = {}
        /\ panListeners = {}
        /\ resizeListeners = {}

\* the App was unmounted while the form was being dragged with the auto-pan
\* interval running
C29_Witness ==
    /\ lastEvent.type = "unmount"
    /\ lastEvent.active = FormId
    /\ lastEvent.target = "autoPan"
    /\ ~mounted
    /\ intervals = 0
    /\ autoPanListeners = {}

\* C30: a release of the mouse button while the background pan or a resize is
\* active ends every active one of them: the flags are false and their window
\* listeners are removed; and an active pan or resize always has its mouseup
\* listener registered, so that no release can be missed
C30_ReleaseEndsGesture ==
    [][/\ isPanning' => "mouseup" \in panListeners'
       /\ isResizing' \subseteq resizeListeners'
       /\ (lastEvent'.type = "mouseup" /\ (isPanning \/ isResizing # {})) =>
              /\ ~isPanning'
              /\ isResizing' = {}
              /\ panListeners' = {}
              /\ resizeListeners' = {}]_vars

\* the button was released after the background was panned 20 px to the
\* left from the default camera: the pan is off and nothing listens
C30_Witness ==
    /\ lastEvent.type = "mouseup"
    /\ viewNext = [x |-> -20 * PX, y |-> 0, scale |-> MILLI]
    /\ ~isPanning
    /\ isResizing = {}
    /\ panListeners = {}
    /\ resizeListeners = {}

\* the stored position of the entity id in the state st, the origin when a
\* card has none
PositionOf(st, id) ==
    IF id = FormId THEN st.formPos
    ELSE IF id = LogoId THEN st.logoPos
    ELSE IF Key(id) \in DOMAIN st.positions THEN st.positions[Key(id)]
    ELSE Pos(0, 0)

\* the blob that holds the position of the entity id
BlobOf(stor, id) ==
    IF id = FormId THEN stor.formPos.val
    ELSE IF id = LogoId THEN stor.logoPos.val
    ELSE stor.positions.val[Key(id)]

C32_ZoomEventsAccumulate ==
    [][LET before == viewNext.scale
           step == CASE lastEvent'.type = "wheelZoom" -> -lastEvent'.delta.y
                     [] lastEvent'.type = "zoomIn" -> MILLI \div 10
                     [] lastEvent'.type = "zoomOut" -> -(MILLI \div 10)
                     [] OTHER -> 0
       IN  lastEvent'.type \in {"wheelZoom", "zoomIn", "zoomOut"} =>
               viewNext'.scale = ClampedScale(before + step)]_vars

\* ------------------------------------------- the press that begins a drag
PressIds == {NumId("1"), FormId, LogoId}

NextPress ==
    \/ Render
    \/ SetTechs(<<NumId("1")>>)
    \/ \E id \in PressIds : MouseDown(DragHandle(id), 0, Pt(400, 300))
    \/ \E id \in PressIds :
           /\ lastEvent.type = "mousedown"
           /\ lastEvent.target = DragHandle(id)
           /\ DragStart(id)
    \/ MouseMove(Pt(420, 300))
    \/ \E delta \in Deltas : DragEnd(DragEvent(dndActive, delta))
    \/ MouseUp

SpecPress == InitPan /\ [][NextPress]_vars

\* C33: an entity drag and a background pan are never active together, and
\* during an entity drag the pan of the camera changes only by auto-pan
\* ticks and wheel events
C33_NeverDraggedAndPanned ==
    [][/\ ~(isPanning' /\ dndActive' # NoDrag)
       /\ (dndActive # NoDrag /\ dndActive' # NoDrag
              /\ (viewNext'.x # viewNext.x \/ viewNext'.y # viewNext.y)) =>
              lastEvent'.type \in {"tick", "wheelPan"}]_vars

\* C34: while no card has been moved, every card a run of the grid placement
\* places gets a position that no other card holds
C34_NewSlotIsFree ==
    [][(lastEvent'.type = "render" /\ nDrags = 0) =>
           \A k \in DOMAIN positions' \ DOMAIN positions :
               \A j \in DOMAIN positions' \ {k} : positions'[j] # positions'[k]]_vars

\* C35: the auto-pan velocity never exceeds 25 px per tick on either axis,
\* wherever the pointer is, outside the viewport included, and whatever the
\* size of the viewport
C35_VelocityAtMostMaxSpeed ==
    /\ Abs(currentPanVelocity.dx) <= 25 * PX
    /\ Abs(currentPanVelocity.dy) <= 25 * PX

\* in a viewport of 150 x 150 the pointer is at (-20, 900), left of the
\* viewport and far below it: the velocity is 25 to the right and 25 up
C35_Witness ==
    /\ lastEvent.type \in {"mousemove", "touchmove"}
    /\ viewport = Viewport(150, 150)
    /\ pointer = Pt(-20, 900)
    /\ currentPanVelocity = [dx |-> 25 * PX, dy |-> -(25 * PX)]

C37_GridPlacementIdempotent ==
    LET W == ContainerWidth(viewport)
        once == calculateGridPositions(techs, positions, W)
    IN  /\ calculateGridPositions(techs, once, W) = once
        /\ \A i \in 1..Len(techs) : Key(techs[i]) \in DOMAIN once

\* a list of four was placed in two columns, card 4 in column 1 of row 1;
\* placing again on that map changes nothing
C37_Witness ==
    /\ lastEvent.type = "render"
    /\ viewport.vw = 600
    /\ techs = <<NumId("1"), NumId("2"), NumId("3"), NumId("4")>>
    /\ DOMAIN positions = {"1", "2", "3", "4"}
    /\ positions["4"] = Pos(296, 488)
    /\ calculateGridPositions(techs, positions, 600) = positions

\* ------------------------------------------------- follow-up list fetches
\* what the store may answer to a list fetch
FetchLists == {<<NumId("1")>>, <<StrId("2"), NumId("1")>>, <<StrId("2")>>}

NextFetch ==
    \/ Render
    \/ \E data \in FetchLists : FetchIssue(data)
    \/ \E f \in fetches.inflight : FetchComplete(f)
    \/ DragStart(NumId("1"))
    \/ \E delta \in Deltas : DragEnd(DragEvent(dndActive, delta))

SpecFetch == InitPan /\ [][NextFetch]_vars

\* C38: once every follow-up fetch that was issued has completed, the item
\* list is the answer to the most recently issued one; the answer to an older
\* fetch never replaces it.
C38_NewestFetchWins ==
    (fetches.issued > 0 /\ fetches.inflight = {}) => techs = fetches.newest

====
